---- MODULE Spec2Model ----
(***************************************************************************)
(* State-machine model of the two Streamlit transcription front ends:      *)
(*   src/app.py                           (websocket variant, "App")       *)
(*   src/real_time_audio_transcription.py (SDK variant, "RT")              *)
(* The App variables and the RT variables are disjoint; Spec runs the App  *)
(* program, SpecRT runs the RT program.                                    *)
(***************************************************************************)
EXTENDS Integers, Sequences, FiniteSets, TLC

\* ------------------------------------------------------------------ bounds
\* number of start_transcription() calls explored (one thread/stream id each)
MaxStarts == 2
\* the same, in the specification that explores few restarts (SpecFew)
MaxStartsFew == 1
\* the server offers a transcript message only while the queue is shorter
MaxQueue == 1
\* largest turn_order the server sends
MaxTurnOrder == 0
\* number of "Start Listening" sessions explored in the RT program
MaxRTStarts == 2
\* number of messages on_turn_callback pushes in the RT program
MaxPush == 2
\* largest turn_order the server sends where the transcript update is explored
MaxApplyTurn == 2

Sessions == 1..MaxStarts
\* Python None for the thread / stream handle
NoHandle == 0
\* the turn_order values the server sends
TurnOrders == 0..MaxTurnOrder
\* the "words" lists the server sends (each word is its "text")
WordLists == {<<"a">>}

\* the turn_order values read from the messages where the transcript update is
\* explored; -1 is what message.get("turn_order", -1) yields without the field
ApplyTurnOrders == -1..MaxApplyTurn
\* the "words" lists of those messages
ApplyWordLists == {<<>>, <<"a">>, <<"b", "c">>}

\* ------------------------------------------------------------- App state
VARIABLES
  authOK,           \* auth_key is set and not the placeholder
  recording,        \* st.session_state.recording
  full_transcript,  \* st.session_state.full_transcript
  thread,           \* st.session_state.thread (NoHandle or a session id)
  stop_event,       \* st.session_state.stop_event: ONE Event shared by all sessions
  stream,           \* st.session_state.stream (NoHandle or a session id)
  error,            \* st.session_state.error
  queue,            \* st.session_state.queue: ONE queue shared by all sessions
  fgpc,             \* foreground position: "idle", or "joining" inside stop_transcription
  starts,           \* number of start_transcription() calls so far
  startLimit,       \* number of start_transcription() calls the exploration allows
  streamSt,         \* per session: the PyAudio stream "none" | "open" | "closed"
  tpc,              \* per session: the thread "none" | "connecting" | "running" | "finally" | "dead"
  sendpc,           \* per session: send() "check" | "io" | "done" | the error it ended with
  recvpc,           \* per session: receive() "check" | "recv" | "done" | the error it ended with
  ws                \* per session: the connection "none" | "open" | "closedOK" | "closedErr" | "released"

appvars == <<authOK, recording, full_transcript, thread, stop_event, stream, error,
             queue, fgpc, starts, startLimit, streamSt, tpc, sendpc, recvpc,
             ws>>

\* -------------------------------------------------------------- RT state
VARIABLES
  is_recording,        \* st.session_state.is_recording
  rt_full_transcript,  \* st.session_state.full_transcript
  partial_transcript,  \* st.session_state.partial_transcript
  transcript_queue,    \* st.session_state.transcript_queue: one queue for all sessions
  worker_thread,       \* st.session_state.worker_thread (NoHandle or a session id)
  client,              \* st.session_state.client (NoHandle or a session id)
  rt_stop_event,       \* st.session_state.stop_event (NoHandle or a session id)
  rtpc,                \* position in main(): "idle" | "discard" | "drain"
  rt_starts,           \* number of sessions started so far
  wpc,                 \* per session: stream_audio_worker "none" | "connecting" | "opening" | "reading" | "finally" | "dead"
  event_set,           \* per session: its threading.Event is set
  conn,                \* per session: its StreamingClient "none" | "new" | "open" | "closed"
  rt_streamSt,         \* per session: the generator's PyAudio stream "none" | "open" | "closed"
  rt_pushed,           \* every message put on transcript_queue, in order (history)
  rt_popped            \* every message taken from transcript_queue, in order (history)

rtvars == <<is_recording, rt_full_transcript, partial_transcript, transcript_queue,
            worker_thread, client, rt_stop_event, rtpc, rt_starts, wpc, event_set, conn,
            rt_streamSt, rt_pushed, rt_popped>>

vars == <<appvars, rtvars>>

RTSessions == 1..MaxRTStarts
\* the words lists of the Turn events the SDK delivers
RTWordLists == {<<>>, <<"a", "b">>}

\* ------------------------------------------------------------- messages
NoError == "None"
ErrAuth == "AssemblyAI API key is missing"
ErrDevice == "Failed to open audio stream"
ErrSendStream == "Send error: stream closed"
ErrSendConn == "Send error: connection closed abnormally"
ErrRecvConn == "Receive error: connection closed abnormally"
ErrRecvDecode == "Receive error: JSONDecodeError"
ErrConnect == "WebSocket connection error"

\* src of an error or status message is the session whose thread pushed it (0:
\* the foreground); it is bookkeeping, the code's dicts do not carry it
WordsMsg(to, w) == [kind |-> "words", turn_order |-> to, words |-> w, text |-> "", src |-> 0]
ErrorMsg(t, e) == [kind |-> "error", turn_order |-> 0, words |-> <<>>, text |-> e, src |-> t]
StoppedMsg(t) == [kind |-> "status", turn_order |-> 0, words |-> <<>>, text |-> "stopped", src |-> t]

\* " ".join(word.get("text", "") for word in words): a string is the sequence of
\* its tokens, the separator between every two words
RECURSIVE JoinWords(_)
JoinWords(w) ==
  IF w = <<>> THEN <<>>
  ELSE IF Len(w) = 1 THEN <<w[1]>>
  ELSE <<w[1], " ">> \o JoinWords(Tail(w))

\* queue.Queue.put
Put(q, m) == Append(q, m)
\* queue.Queue.get_nowait on a non-empty queue: the message and the rest
GetNowait(q) == <<Head(q), Tail(q)>>

\* threading.Thread.is_alive
IsAlive(t) == tpc[t] \in {"connecting", "running", "finally"}

\* --------------------------------------------------------------- Init
InitApp(limit) ==
  /\ startLimit = limit
  /\ authOK \in BOOLEAN
  /\ recording = FALSE
  /\ full_transcript = <<>>
  /\ thread = NoHandle
  /\ stop_event = FALSE
  /\ stream = NoHandle
  /\ error = NoError
  /\ queue = <<>>
  /\ fgpc = "idle"
  /\ starts = 0
  /\ streamSt = [t \in Sessions |-> "none"]
  /\ tpc = [t \in Sessions |-> "none"]
  /\ sendpc = [t \in Sessions |-> "done"]
  /\ recvpc = [t \in Sessions |-> "done"]
  /\ ws = [t \in Sessions |-> "none"]
  /\ is_recording = FALSE
  /\ rt_full_transcript = <<>>
  /\ partial_transcript = <<>>
  /\ transcript_queue = <<>>
  /\ worker_thread = NoHandle
  /\ client = NoHandle
  /\ rt_stop_event = NoHandle
  /\ rtpc = "idle"
  /\ rt_starts = 0
  /\ wpc = [t \in RTSessions |-> "none"]
  /\ event_set = [t \in RTSessions |-> FALSE]
  /\ conn = [t \in RTSessions |-> "none"]
  /\ rt_streamSt = [t \in RTSessions |-> "none"]
  /\ rt_pushed = <<>>
  /\ rt_popped = <<>>

Init == InitApp(MaxStarts)

\* ------------------------------------------------------- foreground (App)
fgvars == <<recording, full_transcript, thread, stop_event, stream, error, fgpc, starts>>
bgvars == <<tpc, sendpc, recvpc, ws>>

\* audio_stream_start() without the except clause: the failure is not reported
AudioStreamStartSilent(devOK, q) == [ok |-> devOK, queue |-> q]

\* audio_stream_start(): its return value and the queue it leaves; devOK is
\* whether p.open succeeds
AudioStreamStart(devOK, q) ==
  [ok |-> devOK, queue |-> IF devOK THEN q ELSE Put(q, ErrorMsg(0, ErrDevice))]

\* start_transcription()
StartTranscription(devOK) ==
  /\ starts < startLimit
  /\ IF ~authOK
     THEN /\ error' = ErrAuth
          /\ UNCHANGED <<recording, full_transcript, thread, stop_event, stream, queue,
                         starts, streamSt, tpc>>
     ELSE LET id == starts + 1 IN
          /\ starts' = id
          /\ error' = NoError
          /\ full_transcript' = <<>>
          /\ stop_event' = FALSE
          /\ queue' = AudioStreamStart(devOK, queue).queue
          /\ IF AudioStreamStart(devOK, queue).ok
             THEN /\ recording' = TRUE
                  /\ stream' = id
                  /\ streamSt' = [streamSt EXCEPT ![id] = "open"]
                  /\ thread' = id
                  /\ tpc' = [tpc EXCEPT ![id] = "connecting"]
             ELSE /\ recording' = FALSE
                  /\ UNCHANGED <<stream, streamSt, thread, tpc>>
  /\ UNCHANGED rtvars
  /\ UNCHANGED <<authOK, startLimit, fgpc, sendpc, recvpc, ws>>

\* stop_transcription() up to the join: stop_event.set(), then thread.join(timeout=1)
StopBegin ==
  /\ stop_event' = TRUE
  /\ fgpc' = "joining"
  /\ UNCHANGED rtvars
  /\ UNCHANGED <<authOK, startLimit, recording, full_transcript, thread, stream, error,
                 queue, starts, streamSt, bgvars>>

\* stop_transcription() after the join returned (the thread ended, or the
\* timeout passed with the thread still alive)
StopFinish ==
  /\ fgpc = "joining"
  /\ IF stream # NoHandle
     THEN /\ streamSt' = [streamSt EXCEPT ![stream] = "closed"]
          /\ stream' = NoHandle
     ELSE UNCHANGED <<stream, streamSt>>
  /\ recording' = FALSE
  /\ fgpc' = "idle"
  /\ UNCHANGED rtvars
  /\ UNCHANGED <<authOK, startLimit, full_transcript, thread, stop_event, error, queue,
                 starts, bgvars>>

\* the transcript update that always appends
ApplyWordsAppendOnly(ft, to, w) == Append(ft, JoinWords(w))

\* the transcript update of the polling branch: the new full_transcript. A
\* negative turn_order indexes from the end, as a Python list does; where that
\* raises IndexError the list is left as it was.
ApplyWords(ft, to, w) ==
  LET transcript == JoinWords(w) IN
  IF to >= Len(ft) THEN Append(ft, transcript)
  ELSE IF to >= 0 THEN [ft EXCEPT ![to + 1] = transcript]
  ELSE IF Len(ft) + to >= 0 THEN [ft EXCEPT ![Len(ft) + to + 1] = transcript]
  ELSE ft

\* a polling branch that takes messages but never ends the session: it ignores
\* the stopped status and does not look at the thread
PollBranchNeverEnds ==
  /\ recording
  /\ IF queue # <<>>
     THEN LET message == GetNowait(queue)[1] IN
          /\ queue' = GetNowait(queue)[2]
          /\ full_transcript' = IF message.kind = "words"
                                THEN ApplyWords(full_transcript, message.turn_order, message.words)
                                ELSE full_transcript
          /\ error' = IF message.kind = "error" THEN message.text ELSE error
     ELSE UNCHANGED <<queue, full_transcript, error>>
  /\ UNCHANGED rtvars
  /\ UNCHANGED <<authOK, startLimit, recording, thread, stop_event, stream, fgpc, starts,
                 streamSt, bgvars>>

\* the polling branch (if st.session_state.recording: ...)
PollBranch ==
  /\ recording
  /\ IF queue # <<>>
     THEN LET message == GetNowait(queue)[1] IN
          /\ queue' = GetNowait(queue)[2]
          /\ full_transcript' = IF message.kind = "words"
                                THEN ApplyWords(full_transcript, message.turn_order, message.words)
                                ELSE full_transcript
          /\ error' = IF message.kind = "error" THEN message.text ELSE error
          /\ recording' = IF message.kind = "status" /\ message.text = "stopped"
                          THEN FALSE ELSE recording
     ELSE /\ recording' = IF thread # NoHandle /\ ~IsAlive(thread) THEN FALSE ELSE recording
          /\ UNCHANGED <<queue, full_transcript, error>>
  /\ UNCHANGED rtvars
  /\ UNCHANGED <<authOK, startLimit, thread, stop_event, stream, fgpc, starts, streamSt,
                 bgvars>>

\* a script run with "Start Transcription" pressed
StartRun ==
  /\ fgpc = "idle"
  /\ IF ~recording THEN \E devOK \in BOOLEAN : StartTranscription(devOK)
     ELSE PollBranch

\* a script run with "Stop Transcription" pressed (not recording: nothing runs)
StopRun ==
  /\ fgpc = "idle"
  /\ recording
  /\ StopBegin

\* a script run with "Clear Transcript" pressed
ClearRun ==
  /\ fgpc = "idle"
  /\ full_transcript' = <<>>
  /\ UNCHANGED rtvars
  /\ UNCHANGED <<authOK, startLimit, recording, thread, stop_event, stream, error, queue,
                 fgpc, starts, streamSt, bgvars>>

\* a script run with no button pressed (the st.rerun() chain while recording)
PollRun ==
  /\ fgpc = "idle"
  /\ PollBranch

\* ------------------------------------------------- background thread (App)
\* connect_ws: websockets.connect(...) succeeds or raises
Connect(t) ==
  /\ tpc[t] = "connecting"
  /\ \E ok \in BOOLEAN :
       IF ok
       THEN /\ ws' = [ws EXCEPT ![t] = "open"]
            /\ tpc' = [tpc EXCEPT ![t] = "running"]
            /\ sendpc' = [sendpc EXCEPT ![t] = "check"]
            /\ recvpc' = [recvpc EXCEPT ![t] = "check"]
            /\ UNCHANGED queue
       ELSE /\ queue' = Put(queue, ErrorMsg(t, ErrConnect))
            /\ tpc' = [tpc EXCEPT ![t] = "finally"]
            /\ UNCHANGED <<ws, sendpc, recvpc>>
  /\ UNCHANGED rtvars
  /\ UNCHANGED <<authOK, startLimit, fgvars, streamSt>>

\* send(): while not stop_event.is_set()
SendCheck(t) ==
  /\ tpc[t] = "running"
  /\ sendpc[t] = "check"
  /\ sendpc' = [sendpc EXCEPT ![t] = IF stop_event THEN "done" ELSE "io"]
  /\ UNCHANGED rtvars
  /\ UNCHANGED <<authOK, startLimit, fgvars, queue, streamSt, tpc, recvpc, ws>>

\* what one pass of send()'s try block does: "again", "break", or the error pushed
SendOutcome(st, w) ==
  IF st # "open" THEN ErrSendStream
  ELSE IF w = "closedOK" THEN "break"
  ELSE IF w = "closedErr" THEN ErrSendConn
  ELSE "again"

\* send(): stream.read, ws.send, the except clauses, asyncio.sleep
SendIO(t) ==
  /\ tpc[t] = "running"
  /\ sendpc[t] = "io"
  /\ LET out == SendOutcome(streamSt[t], ws[t]) IN
       IF out = "again"
       THEN /\ sendpc' = [sendpc EXCEPT ![t] = "check"]
            /\ UNCHANGED queue
       ELSE IF out = "break"
       THEN /\ sendpc' = [sendpc EXCEPT ![t] = "done"]
            /\ UNCHANGED queue
       ELSE /\ queue' = Put(queue, ErrorMsg(t, out))
            /\ sendpc' = [sendpc EXCEPT ![t] = out]
  /\ UNCHANGED rtvars
  /\ UNCHANGED <<authOK, startLimit, fgvars, streamSt, tpc, recvpc, ws>>

\* receive(): while not stop_event.is_set()
RecvCheck(t) ==
  /\ tpc[t] = "running"
  /\ recvpc[t] = "check"
  /\ recvpc' = [recvpc EXCEPT ![t] = IF stop_event THEN "done" ELSE "recv"]
  /\ UNCHANGED rtvars
  /\ UNCHANGED <<authOK, startLimit, fgvars, queue, streamSt, tpc, sendpc, ws>>

\* what receive()'s try block does with a frame that json.loads cannot parse
\* (or whose value does not support "in"): "again", or the error pushed
DecodeOutcome == ErrRecvDecode

\* receive() without its ConnectionClosedOK clause: every close is reported
RecvClosedReportsAll(w) == ErrRecvConn

\* what receive()'s try block does when ws.recv() raises: "break" or the error
RecvClosedOutcome(w) == IF w = "closedOK" THEN "break" ELSE ErrRecvConn

\* receive(): ws.recv() returned a frame of kind k ("turn": JSON with "words";
\* "other": JSON without; "malformed")
RecvFrame(t, k, to, w) ==
  /\ tpc[t] = "running"
  /\ recvpc[t] = "recv"
  /\ ws[t] = "open"
  /\ IF k = "turn"
     THEN /\ Len(queue) < MaxQueue
          /\ queue' = Put(queue, WordsMsg(to, w))
          /\ recvpc' = [recvpc EXCEPT ![t] = "check"]
     ELSE IF k = "other"
     THEN /\ recvpc' = [recvpc EXCEPT ![t] = "check"]
          /\ UNCHANGED queue
     ELSE IF DecodeOutcome = "again"
     THEN /\ recvpc' = [recvpc EXCEPT ![t] = "check"]
          /\ UNCHANGED queue
     ELSE /\ queue' = Put(queue, ErrorMsg(t, DecodeOutcome))
          /\ recvpc' = [recvpc EXCEPT ![t] = DecodeOutcome]
  /\ UNCHANGED rtvars
  /\ UNCHANGED <<authOK, startLimit, fgvars, streamSt, tpc, sendpc, ws>>

\* receive(): ws.recv() raised because the connection is closed
RecvClosed(t) ==
  /\ tpc[t] = "running"
  /\ recvpc[t] = "recv"
  /\ ws[t] \in {"closedOK", "closedErr"}
  /\ LET out == RecvClosedOutcome(ws[t]) IN
       IF out = "break"
       THEN /\ recvpc' = [recvpc EXCEPT ![t] = "done"]
            /\ UNCHANGED queue
       ELSE /\ queue' = Put(queue, ErrorMsg(t, out))
            /\ recvpc' = [recvpc EXCEPT ![t] = out]
  /\ UNCHANGED rtvars
  /\ UNCHANGED <<authOK, startLimit, fgvars, streamSt, tpc, sendpc, ws>>

\* the coroutine has returned (normally, or after pushing the error named)
LoopEnded(pc) == pc \notin {"check", "io", "recv"}

\* asyncio.gather returned: the async with block is left, which closes and
\* releases the connection whatever state it was in
LeaveWs(t) ==
  /\ tpc[t] = "running"
  /\ LoopEnded(sendpc[t])
  /\ LoopEnded(recvpc[t])
  /\ tpc' = [tpc EXCEPT ![t] = "finally"]
  /\ ws' = [ws EXCEPT ![t] = "released"]
  /\ sendpc' = [sendpc EXCEPT ![t] = "done"]
  /\ recvpc' = [recvpc EXCEPT ![t] = "done"]
  /\ UNCHANGED rtvars
  /\ UNCHANGED <<authOK, startLimit, fgvars, queue, streamSt>>

\* connect_ws without its finally clause: the thread function just returns
FinallySilent(t) ==
  /\ tpc[t] = "finally"
  /\ tpc' = [tpc EXCEPT ![t] = "dead"]
  /\ UNCHANGED rtvars
  /\ UNCHANGED <<authOK, startLimit, fgvars, queue, streamSt, sendpc, recvpc, ws>>

\* connect_ws: finally: q.put({"status": "stopped"}); the thread function returns
Finally(t) ==
  /\ tpc[t] = "finally"
  /\ queue' = Put(queue, StoppedMsg(t))
  /\ tpc' = [tpc EXCEPT ![t] = "dead"]
  /\ UNCHANGED rtvars
  /\ UNCHANGED <<authOK, startLimit, fgvars, streamSt, sendpc, recvpc, ws>>

\* the remote end closes the connection cleanly (close code 1000)
RemoteCloseOK(t) ==
  /\ tpc[t] = "running"
  /\ ws[t] = "open"
  /\ ws' = [ws EXCEPT ![t] = "closedOK"]
  /\ UNCHANGED rtvars
  /\ UNCHANGED <<authOK, startLimit, fgvars, queue, streamSt, tpc, sendpc, recvpc>>

\* the connection fails (reset, keepalive ping_timeout): ConnectionClosedError
ConnFail(t) ==
  /\ tpc[t] = "running"
  /\ ws[t] = "open"
  /\ ws' = [ws EXCEPT ![t] = "closedErr"]
  /\ UNCHANGED rtvars
  /\ UNCHANGED <<authOK, startLimit, fgvars, queue, streamSt, tpc, sendpc, recvpc>>

Receive(t) ==
  \/ \E k \in {"turn", "other", "malformed"}, to \in TurnOrders, w \in WordLists :
        RecvFrame(t, k, to, w)
  \/ RecvClosed(t)

ThreadStep(t) ==
  \/ Connect(t)
  \/ SendCheck(t)
  \/ SendIO(t)
  \/ RecvCheck(t)
  \/ Receive(t)
  \/ LeaveWs(t)
  \/ Finally(t)

Next ==
  \/ PollRun
  \/ StartRun
  \/ StopRun
  \/ StopFinish
  \/ ClearRun
  \/ \E t \in Sessions : ThreadStep(t)
  \/ \E t \in Sessions : RemoteCloseOK(t)
  \/ \E t \in Sessions : ConnFail(t)

Spec == Init /\ [][Next]_vars

\* the same program, explored with fewer restarts
InitFew == InitApp(MaxStartsFew)

SpecFew == InitFew /\ [][Next]_vars

\* The scheduling the code can count on: a pending join returns, the rerun chain
\* keeps polling while recording, the event loop runs both coroutines, and (the
\* most the code can hope for) the server keeps sending frames or closes, so that
\* ws.recv() always returns. Clicks and connection failures are never forced.
Fairness ==
  /\ WF_vars(StopFinish)
  /\ WF_vars(PollRun)
  /\ \A t \in Sessions :
       /\ WF_vars(Connect(t))
       /\ WF_vars(SendCheck(t) \/ SendIO(t))
       /\ WF_vars(RecvCheck(t) \/ Receive(t))
       /\ WF_vars(LeaveWs(t))
       /\ WF_vars(Finally(t))

FairSpec == Spec /\ Fairness


\* the RT session state as main() constructs it
RTInitial ==
  /\ is_recording = FALSE
  /\ rt_full_transcript = <<>>
  /\ partial_transcript = <<>>
  /\ transcript_queue = <<>>
  /\ worker_thread = NoHandle
  /\ client = NoHandle
  /\ rt_stop_event = NoHandle
  /\ rtpc = "idle"
  /\ rt_starts = 0
  /\ wpc = [t \in RTSessions |-> "none"]
  /\ event_set = [t \in RTSessions |-> FALSE]
  /\ conn = [t \in RTSessions |-> "none"]
  /\ rt_streamSt = [t \in RTSessions |-> "none"]
  /\ rt_pushed = <<>>
  /\ rt_popped = <<>>

\* The state start_transcription leaves when the first start succeeds: the
\* session is recording, its stream open and its thread started. No further
\* start is explored from here (startLimit = starts).
InitStarted ==
  /\ starts = 1
  /\ startLimit = starts
  /\ authOK = TRUE
  /\ recording = TRUE
  /\ full_transcript = <<>>
  /\ thread = 1
  /\ stop_event = FALSE
  /\ stream = 1
  /\ error = NoError
  /\ queue = <<>>
  /\ fgpc = "idle"
  /\ streamSt = [t \in Sessions |-> IF t = 1 THEN "open" ELSE "none"]
  /\ tpc = [t \in Sessions |-> IF t = 1 THEN "connecting" ELSE "none"]
  /\ sendpc = [t \in Sessions |-> "done"]
  /\ recvpc = [t \in Sessions |-> "done"]
  /\ ws = [t \in Sessions |-> "none"]
  /\ RTInitial

FairSpecStarted == InitStarted /\ [][Next]_vars /\ Fairness

\* ------------------------------------------- the transcript update (App)
\* One recording session whose thread is connected and in its loops: the state
\* start_transcription and connect_ws leave. The receive loop forwards frames
\* with any turn_order and words, the foreground polls and clears.
InitApply ==
  /\ startLimit = MaxStartsFew
  /\ authOK = TRUE
  /\ recording = TRUE
  /\ full_transcript = <<>>
  /\ thread = 1
  /\ stop_event = FALSE
  /\ stream = 1
  /\ error = NoError
  /\ queue = <<>>
  /\ fgpc = "idle"
  /\ starts = 1
  /\ streamSt = [t \in Sessions |-> IF t = 1 THEN "open" ELSE "none"]
  /\ tpc = [t \in Sessions |-> IF t = 1 THEN "running" ELSE "none"]
  /\ sendpc = [t \in Sessions |-> IF t = 1 THEN "check" ELSE "done"]
  /\ recvpc = [t \in Sessions |-> IF t = 1 THEN "check" ELSE "done"]
  /\ ws = [t \in Sessions |-> IF t = 1 THEN "open" ELSE "none"]
  /\ RTInitial

NextApply ==
  \/ PollRun
  \/ ClearRun
  \/ RecvCheck(1)
  \/ \E to \in ApplyTurnOrders, w \in ApplyWordLists : RecvFrame(1, "turn", to, w)

SpecApply == InitApply /\ [][NextApply]_vars

\* ===================================================== the RT program
\* transcript_queue.put
RTPut(q, m) == Append(q, m)
\* a get() that takes the newest message instead of the oldest
RTGetNewest(q) == <<q[Len(q)], SubSeq(q, 1, Len(q) - 1)>>
\* transcript_queue.get() on a non-empty queue: the message and the rest
RTGet(q) == <<Head(q), Tail(q)>>

\* on_turn_callback: what it puts on the queue for a Turn event (<<>>: nothing)
OnTurnMessages(words, end_of_turn) ==
  LET transcript == JoinWords(words) IN
  IF transcript = <<>> THEN <<>>
  ELSE IF end_of_turn THEN <<[type |-> "final", text |-> transcript]>>
  ELSE <<[type |-> "partial", text |-> transcript]>>

\* the SDK delivers a Turn event of session id to on_turn_callback
OnTurn(id, words, end_of_turn) ==
  /\ wpc[id] \in {"opening", "reading"}
  /\ conn[id] = "open"
  /\ Len(rt_pushed) < MaxPush
  /\ OnTurnMessages(words, end_of_turn) # <<>>
  /\ transcript_queue' = RTPut(transcript_queue, OnTurnMessages(words, end_of_turn)[1])
  /\ rt_pushed' = Append(rt_pushed, OnTurnMessages(words, end_of_turn)[1])
  /\ UNCHANGED <<is_recording, rt_full_transcript, partial_transcript, worker_thread, client,
                 rt_stop_event, rtpc, rt_starts, wpc, event_set, conn, rt_streamSt, rt_popped>>
  /\ UNCHANGED appvars

\* stream_audio_worker: client.connect(...) returns or raises (it raises when
\* the foreground has already disconnected the client)
WorkerConnect(id) ==
  /\ wpc[id] = "connecting"
  /\ \E ok \in BOOLEAN :
       IF ok /\ conn[id] = "new"
       THEN /\ conn' = [conn EXCEPT ![id] = "open"]
            /\ wpc' = [wpc EXCEPT ![id] = "opening"]
       ELSE /\ wpc' = [wpc EXCEPT ![id] = "finally"]
            /\ UNCHANGED conn
  /\ UNCHANGED <<is_recording, rt_full_transcript, partial_transcript, transcript_queue,
                 worker_thread, client, rt_stop_event, rtpc, rt_starts, event_set,
                 rt_streamSt, rt_pushed, rt_popped>>
  /\ UNCHANGED appvars

\* get_audio_stream: p.open(...) at the first next() of client.stream
WorkerOpenAudio(id) ==
  /\ wpc[id] = "opening"
  /\ \E ok \in BOOLEAN :
       IF ok
       THEN /\ rt_streamSt' = [rt_streamSt EXCEPT ![id] = "open"]
            /\ wpc' = [wpc EXCEPT ![id] = "reading"]
       ELSE /\ wpc' = [wpc EXCEPT ![id] = "finally"]
            /\ UNCHANGED rt_streamSt
  /\ UNCHANGED <<is_recording, rt_full_transcript, partial_transcript, transcript_queue,
                 worker_thread, client, rt_stop_event, rtpc, rt_starts, event_set, conn,
                 rt_pushed, rt_popped>>
  /\ UNCHANGED appvars

\* get_audio_stream: one pass of while not stop_event.is_set(), or the lines
\* after the loop; client.stream may raise once the connection is closed, which
\* abandons the generator with its stream open
WorkerRead(id) ==
  /\ wpc[id] = "reading"
  /\ IF event_set[id]
     THEN /\ rt_streamSt' = [rt_streamSt EXCEPT ![id] = "closed"]
          /\ wpc' = [wpc EXCEPT ![id] = "finally"]
     ELSE \E raises \in BOOLEAN :
            /\ raises => conn[id] = "closed"
            /\ wpc' = [wpc EXCEPT ![id] = IF raises THEN "finally" ELSE "reading"]
            /\ UNCHANGED rt_streamSt
  /\ UNCHANGED <<is_recording, rt_full_transcript, partial_transcript, transcript_queue,
                 worker_thread, client, rt_stop_event, rtpc, rt_starts, event_set, conn,
                 rt_pushed, rt_popped>>
  /\ UNCHANGED appvars

\* stream_audio_worker: finally: client.disconnect(terminate=True); return
WorkerFinally(id) ==
  /\ wpc[id] = "finally"
  /\ conn' = [conn EXCEPT ![id] = "closed"]
  /\ wpc' = [wpc EXCEPT ![id] = "dead"]
  /\ UNCHANGED <<is_recording, rt_full_transcript, partial_transcript, transcript_queue,
                 worker_thread, client, rt_stop_event, rtpc, rt_starts, event_set,
                 rt_streamSt, rt_pushed, rt_popped>>
  /\ UNCHANGED appvars

\* the service ends the session or the connection is lost
RTConnLost(id) ==
  /\ conn[id] = "open"
  /\ wpc[id] \in {"opening", "reading"}
  /\ conn' = [conn EXCEPT ![id] = "closed"]
  /\ UNCHANGED <<is_recording, rt_full_transcript, partial_transcript, transcript_queue,
                 worker_thread, client, rt_stop_event, rtpc, rt_starts, wpc, event_set,
                 rt_streamSt, rt_pushed, rt_popped>>
  /\ UNCHANGED appvars

\* main(): a script run with "Start Listening" pressed, up to the discard loop
RTStartRun ==
  /\ rtpc = "idle"
  /\ IF ~is_recording
     THEN /\ rt_starts < MaxRTStarts
          /\ is_recording' = TRUE
          /\ rt_full_transcript' = <<>>
          /\ partial_transcript' = <<>>
          /\ rtpc' = "discard"
     ELSE /\ rtpc' = "drain"
          /\ UNCHANGED <<is_recording, rt_full_transcript, partial_transcript>>
  /\ UNCHANGED <<transcript_queue, worker_thread, client, rt_stop_event, rt_starts, wpc,
                 event_set, conn, rt_streamSt, rt_pushed, rt_popped>>
  /\ UNCHANGED appvars

\* main(): one pass of the discard loop of "Start Listening"
RTDiscardStep ==
  /\ rtpc = "discard"
  /\ transcript_queue # <<>>
  /\ transcript_queue' = RTGet(transcript_queue)[2]
  /\ rt_popped' = Append(rt_popped, RTGet(transcript_queue)[1])
  /\ UNCHANGED <<is_recording, rt_full_transcript, partial_transcript, worker_thread, client,
                 rt_stop_event, rtpc, rt_starts, wpc, event_set, conn, rt_streamSt, rt_pushed>>
  /\ UNCHANGED appvars

\* main(): the discard loop found the queue empty; the client, the Event and
\* the thread of the new session are created and the thread started
RTDiscardEnd ==
  /\ rtpc = "discard"
  /\ transcript_queue = <<>>
  /\ LET id == rt_starts + 1 IN
       /\ rt_starts' = id
       /\ client' = id
       /\ conn' = [conn EXCEPT ![id] = "new"]
       /\ rt_stop_event' = id
       /\ worker_thread' = id
       /\ wpc' = [wpc EXCEPT ![id] = "connecting"]
  /\ rtpc' = "idle"
  /\ UNCHANGED <<is_recording, rt_full_transcript, partial_transcript, transcript_queue,
                 event_set, rt_streamSt, rt_pushed, rt_popped>>
  /\ UNCHANGED appvars

\* main(): a script run with "Stop Listening" pressed
RTStopRun ==
  /\ rtpc = "idle"
  /\ IF is_recording
     THEN /\ is_recording' = FALSE
          /\ event_set' = IF rt_stop_event # NoHandle
                          THEN [event_set EXCEPT ![rt_stop_event] = TRUE] ELSE event_set
          /\ conn' = IF client # NoHandle THEN [conn EXCEPT ![client] = "closed"] ELSE conn
          /\ client' = NoHandle
          /\ UNCHANGED rtpc
     ELSE /\ rtpc' = "drain"
          /\ UNCHANGED <<is_recording, event_set, conn, client>>
  /\ UNCHANGED <<rt_full_transcript, partial_transcript, transcript_queue, worker_thread,
                 rt_stop_event, rt_starts, wpc, rt_streamSt, rt_pushed, rt_popped>>
  /\ UNCHANGED appvars

\* main(): a script run with no button pressed reaches the drain loop
RTPlainRun ==
  /\ rtpc = "idle"
  /\ rtpc' = "drain"
  /\ UNCHANGED <<is_recording, rt_full_transcript, partial_transcript, transcript_queue,
                 worker_thread, client, rt_stop_event, rt_starts, wpc, event_set, conn,
                 rt_streamSt, rt_pushed, rt_popped>>
  /\ UNCHANGED appvars

\* main(): one pass of the drain loop
RTDrainStep ==
  /\ rtpc = "drain"
  /\ transcript_queue # <<>>
  /\ LET msg == RTGet(transcript_queue)[1] IN
       /\ transcript_queue' = RTGet(transcript_queue)[2]
       /\ rt_popped' = Append(rt_popped, msg)
       /\ IF msg.type = "partial"
          THEN /\ partial_transcript' = msg.text
               /\ UNCHANGED rt_full_transcript
          ELSE IF msg.type = "final"
          THEN /\ rt_full_transcript' = Append(rt_full_transcript, msg.text)
               /\ partial_transcript' = <<>>
          ELSE UNCHANGED <<rt_full_transcript, partial_transcript>>
  /\ UNCHANGED <<is_recording, worker_thread, client, rt_stop_event, rtpc, rt_starts, wpc,
                 event_set, conn, rt_streamSt, rt_pushed>>
  /\ UNCHANGED appvars

\* main(): the drain loop found the queue empty; the rest of the run
RTDrainEnd ==
  /\ rtpc = "drain"
  /\ transcript_queue = <<>>
  /\ is_recording' = IF is_recording /\ worker_thread # NoHandle /\ wpc[worker_thread] = "dead"
                     THEN FALSE ELSE is_recording
  /\ rtpc' = "idle"
  /\ UNCHANGED <<rt_full_transcript, partial_transcript, transcript_queue, worker_thread,
                 client, rt_stop_event, rt_starts, wpc, event_set, conn, rt_streamSt,
                 rt_pushed, rt_popped>>
  /\ UNCHANGED appvars

NextRT ==
  \/ RTPlainRun
  \/ RTStartRun
  \/ RTDiscardStep
  \/ RTDiscardEnd
  \/ RTStopRun
  \/ RTDrainStep
  \/ RTDrainEnd
  \/ \E id \in RTSessions, w \in RTWordLists, eot \in BOOLEAN : OnTurn(id, w, eot)
  \/ \E id \in RTSessions : WorkerConnect(id)
  \/ \E id \in RTSessions : WorkerOpenAudio(id)
  \/ \E id \in RTSessions : WorkerRead(id)
  \/ \E id \in RTSessions : WorkerFinally(id)
  \/ \E id \in RTSessions : RTConnLost(id)

\* the RT program does not read the App variables; they stay as constructed
InitRT == Init /\ authOK

SpecRT == InitRT /\ [][NextRT]_vars

\* ------------------------------------------------------------ properties
InQueue(m) == \E i \in 1..Len(queue) : queue[i] = m
InsideWs(t) == tpc[t] = "running"
LoopErrors == {ErrSendStream, ErrSendConn, ErrRecvConn, ErrRecvDecode}

\* C1: once stop_transcription is invoked on a recording session whose thread is
\* alive, eventually that session's audio stream is closed and its thread has
\* left the websocket context (both loops of send_receive have exited).
C1_StopReleasesResources ==
  \A t \in Sessions :
    (fgpc = "joining" /\ thread = t /\ IsAlive(t))
      ~> (streamSt[t] = "closed" /\ ~IsAlive(t) /\ ws[t] \in {"none", "released"})

\* C2: for one connection failure a session's thread pushes at most one error
\* message: the send loop, the receive loop and the connection wrapper never
\* both report it.
C2_SingleErrorPerFailure ==
  \A t \in Sessions : ~(sendpc[t] = ErrSendConn /\ recvpc[t] = ErrRecvConn)

\* C3: whenever a start opens a new audio stream, no stream opened by an earlier
\* session is still open and no earlier session's thread still holds its
\* connection.
C3_NoLeakAcrossRestart ==
  [][\A id \in Sessions :
       (streamSt[id] = "none" /\ streamSt'[id] = "open")
         => \A s \in Sessions \ {id} : streamSt[s] # "open" /\ ~InsideWs(s)]_vars

\* C4: once one loop of send_receive of the recording session has ended with
\* an error, the other loop ends too, the thread finishes and the session stops
\* recording.
C4_LoopErrorEndsSession ==
  \A t \in Sessions :
    (/\ thread = t /\ recording /\ fgpc = "idle" /\ InsideWs(t)
     /\ (sendpc[t] \in LoopErrors \/ recvpc[t] \in LoopErrors))
      ~> (tpc[t] = "dead" /\ ~(thread = t /\ recording))

\* C5: a frame that cannot be decoded is ignored by the receive loop: nothing is
\* pushed to the queue and the loop goes on to its next iteration.
C5_MalformedIgnored ==
  [][\A t \in Sessions :
       RecvFrame(t, "malformed", 0, <<>>) => (queue' = queue /\ recvpc'[t] = "check")]_vars

\* C6: a clean remote close is not an error. The step in which receive() or
\* send() (its audio stream still open) meets the cleanly closed connection
\* pushes nothing and ends that loop, leaving the connection context pushes
\* nothing, and a thread that reported no error ends by pushing just the
\* stopped status.
C6_CleanCloseNoError ==
  [][\A t \in Sessions :
       /\ (RecvClosed(t) /\ ws[t] = "closedOK")
            => (queue' = queue /\ recvpc'[t] = "done")
       /\ (SendIO(t) /\ ws[t] = "closedOK" /\ streamSt[t] = "open")
            => (queue' = queue /\ sendpc'[t] = "done")
       /\ LeaveWs(t) => queue' = queue
       /\ Finally(t) => queue' = Append(queue, StoppedMsg(t))]_vars

\* C6 witness: the latest session, never stopped, has both loops ended by the
\* clean close with no error reported.
C6_Witness ==
  \E t \in Sessions :
    /\ starts = t /\ thread = t /\ ~stop_event
    /\ tpc[t] = "running" /\ ws[t] = "closedOK"
    /\ sendpc[t] = "done" /\ recvpc[t] = "done"

\* C7: when opening the audio device fails, start_transcription returns
\* normally having pushed exactly one error message, started no thread and no
\* connection, opened no stream, and with recording false.
C7_DeviceFailureAbortsStart ==
  [][(fgpc = "idle" /\ ~recording /\ authOK /\ StartTranscription(FALSE))
       => /\ queue' = Append(queue, ErrorMsg(0, ErrDevice))
          /\ recording' = FALSE
          /\ fgpc' = "idle"
          /\ UNCHANGED <<thread, stream, streamSt, tpc, sendpc, recvpc, ws>>]_vars

\* C7 witness: the first start failed at the device: its error is queued, no
\* thread, stream or connection exists, and the session is not recording.
C7_Witness ==
  /\ starts = 1 /\ ~recording /\ fgpc = "idle"
  /\ queue = <<ErrorMsg(0, ErrDevice)>>
  /\ tpc[1] = "none" /\ streamSt[1] = "none" /\ ws[1] = "none" /\ thread = NoHandle

\* The start handler calls start_transcription exactly when recording is false
\* (app.py line 177) and the stop handler calls stop_transcription exactly when
\* recording is true (line 183); each call changes the state.
StartIgnored == recording
StopIgnored == ~recording
\* the session of the current thread handle is starting or active
SessionActive ==
  /\ thread # NoHandle
  /\ tpc[thread] \in {"connecting", "running"}
  /\ streamSt[thread] = "open"
NoSession == \A t \in Sessions : ~IsAlive(t) /\ streamSt[t] # "open"

\* C8: while a session is starting or active a start command is ignored, and
\* while no session exists a stop command is ignored.
C8_ReentrantCommandsIgnored ==
  /\ SessionActive => StartIgnored
  /\ NoSession => StopIgnored

\* C9: the stopped status a thread pushed is eventually taken from the queue.
C9_EveryMessageConsumed ==
  \A t \in Sessions : InQueue(StoppedMsg(t)) ~> ~InQueue(StoppedMsg(t))

\* C10: the queue is drained in push order without loss or duplication: the
\* messages popped so far, followed by those still queued, are exactly the
\* messages pushed, so a drain that ends on an empty queue has popped all N of
\* them in order.
C10_DrainFIFO == rt_popped \o transcript_queue = rt_pushed

\* C10 witness: MaxPush messages, not all alike, were pushed and a drain loop has
\* just popped the last of them and found the queue empty.
C10_Witness ==
  /\ rtpc = "idle" /\ transcript_queue = <<>>
  /\ Len(rt_popped) = MaxPush
  /\ rt_popped[1] # rt_popped[2]
  /\ rt_full_transcript # <<>>

\* this step is the polling branch taking a message with "words" from the queue
\* and applying it to the transcript
AppliesWords ==
  /\ fgpc = "idle" /\ recording
  /\ queue # <<>> /\ Head(queue).kind = "words"
  /\ queue' = Tail(queue)

\* C11: for a message with non-empty joined text and 0 <= turn_order <=
\* len(full_transcript), the update overwrites element turn_order when it
\* exists and appends when turn_order = len, leaves every other element as it
\* was, and the new length is max(len, turn_order + 1).
C11_ApplyMatchesReference ==
  [][AppliesWords =>
       LET to == Head(queue).turn_order
           text == JoinWords(Head(queue).words)
           n == Len(full_transcript)
       IN  (text # <<>> /\ 0 <= to /\ to <= n)
             => /\ Len(full_transcript') = (IF to + 1 > n THEN to + 1 ELSE n)
                /\ full_transcript'[to + 1] = text
                /\ \A i \in 1..n : i # to + 1 => full_transcript'[i] = full_transcript[i]]_vars

\* C11 witness: two events were applied at the append boundary, giving two
\* segments with different texts, and a revision of the first is queued.
C11_Witness ==
  /\ full_transcript = <<JoinWords(<<"a">>), JoinWords(<<"b", "c">>)>>
  /\ queue = <<WordsMsg(0, <<"b", "c">>)>>
  /\ recording /\ fgpc = "idle"

\* C12: applying the same event twice in a row gives the same segments as
\* applying it once: whenever a message with non-empty text and turn_order >= 0
\* has been applied, applying it again changes nothing.
C12_ApplyIdempotent ==
  [][AppliesWords =>
       LET to == Head(queue).turn_order
           w == Head(queue).words
       IN  (JoinWords(w) # <<>> /\ to >= 0)
             => ApplyWords(full_transcript', to, w) = full_transcript']_vars

\* C13: a received message whose words list is empty leaves the transcript as
\* it was, whatever its turn_order.
C13_EmptyTextNoOp ==
  [][(AppliesWords /\ Head(queue).words = <<>>)
       => full_transcript' = full_transcript]_vars

\* C14: segments are indexed by turn order: applying a message with non-empty
\* text and turn_order i >= 0 (within or beyond the current length) leaves its
\* text at index i and every other existing element where it was, so that each
\* element holds the text of the latest event of its own turn order.
C14_IndexStable ==
  [][AppliesWords =>
       LET to == Head(queue).turn_order
           text == JoinWords(Head(queue).words)
       IN  (text # <<>> /\ to >= 0)
             => /\ Len(full_transcript') >= to + 1
                /\ full_transcript'[to + 1] = text
                /\ \A i \in 1..Len(full_transcript) :
                      i # to + 1 => full_transcript'[i] = full_transcript[i]]_vars

\* C19: the update never indexes out of range: every message with words that
\* is applied either appends (turn_order >= len) or overwrites an existing
\* index 0 <= turn_order < len.
C19_IndexInRange ==
  [][AppliesWords =>
       LET to == Head(queue).turn_order
           n == Len(full_transcript)
       IN  to >= n \/ (0 <= to /\ to < n)]_vars

\* this step puts message m on the queue
Pushes(m) == queue' = Append(queue, m)

\* C15: a thread run pushes exactly one stopped status, as the last thing it
\* does: the step in which the thread ends is the step that pushes its stopped
\* status, the status is pushed in no other step, every error of the thread is
\* pushed while the thread has not ended, and an ended thread takes no step.
C15_StoppedOnceAndLast ==
  [][\A t \in Sessions :
       /\ (tpc[t] # "dead" /\ tpc'[t] = "dead") => Pushes(StoppedMsg(t))
       /\ Pushes(StoppedMsg(t)) => (tpc[t] = "finally" /\ tpc'[t] = "dead")
       /\ (\E e \in LoopErrors \cup {ErrConnect} : Pushes(ErrorMsg(t, e)))
            => tpc[t] \in {"connecting", "running"}
       /\ tpc[t] = "dead" => (tpc'[t] = "dead" /\ ~ThreadStep(t))]_vars

\* C15 witness: a thread that failed to connect has ended; its error and then
\* its stopped status are the queue.
C15_Witness ==
  \E t \in Sessions :
    /\ tpc[t] = "dead"
    /\ queue = <<ErrorMsg(t, ErrConnect), StoppedMsg(t)>>

\* this step is the polling branch taking a message from the queue
ConsumesMessage ==
  /\ fgpc = "idle" /\ recording
  /\ queue # <<>>
  /\ queue' = Tail(queue)

\* C16: an error or stopped status that the foreground consumes while a
\* session is recording was pushed by the thread of that session, never by the
\* thread of an earlier one.
C16_SessionIsolation ==
  [][(ConsumesMessage /\ Head(queue).src # 0) => Head(queue).src = thread]_vars

\* stop_transcription has run for session t: it alone closes a session's stream,
\* after setting the stop flag
Stopped(t) == streamSt[t] = "closed"

\* C17: cancellation is never revoked: every check of the stop flag that a
\* loop of a stopped session makes sees the flag set, and the loop ends there.
C17_CancellationSticks ==
  [][\A t \in Sessions :
       /\ (Stopped(t) /\ SendCheck(t)) => (stop_event /\ sendpc'[t] = "done")
       /\ (Stopped(t) /\ RecvCheck(t)) => (stop_event /\ recvpc'[t] = "done")]_vars

\* C18: at most one thread is alive and at most one audio stream is open.
C18_SingleThreadSingleStream ==
  /\ Cardinality({t \in Sessions : IsAlive(t)}) <= 1
  /\ Cardinality({t \in Sessions : streamSt[t] = "open"}) <= 1

\* C20: if the thread of the recording session has ended, then, the foreground
\* polling on, recording eventually becomes false.
C20_DeadThreadEndsRecording ==
  \A t \in Sessions :
    (thread = t /\ recording /\ tpc[t] = "dead") ~> ~recording

\* C20 witness: the thread of the latest session has ended, nobody pressed
\* stop in that session (the flag is still clear), and the polling branch has
\* set recording to false.
C20_Witness ==
  \E t \in Sessions :
    /\ starts = t /\ thread = t /\ tpc[t] = "dead"
    /\ ~stop_event /\ fgpc = "idle"
    /\ ~recording

====
